---- MODULE Spec2Model ----
(***************************************************************************)
(* Model of wassap/parser.py: Message.parse_line / Message.from_line /     *)
(* Message.__str__ and Chat (construction, line reassembly, filter         *)
(* operators, subscripts).                                                 *)
(*                                                                         *)
(* A string is a sequence of one-character strings.  Regular expressions   *)
(* are evaluated as Python's re evaluates them: "." is every character but *)
(* the newline, "$" is the end of the string or the place before a final   *)
(* newline, ".*?" takes the shortest and ".*" the longest text for which   *)
(* the rest of the pattern still matches.                                  *)
(***************************************************************************)
EXTENDS Integers, Sequences, FiniteSets, TLC

VARIABLES
    line,         \* SpecParse: the argument of Message.from_line
    day_first,    \* SpecParse: the day_first argument
    parsed,       \* SpecParse: outcome of Message.from_line(line, day_first)
    reparsed,     \* SpecParse: outcome of Message.from_line(str(m), day_first)
    lines,        \* Spec/SpecOps: the list handed to Chat(lines, day_first)
    pc,           \* Spec: position inside Chat.__init__
    i,            \* Spec: index of the next raw line in _build_messages' loop
    message_lines,\* Spec: the local list of _build_messages
    chat,         \* Spec/SpecOps: the Chat object, or the exception raised
    op,           \* SpecOps: the last operator / subscript applied to chat
    out           \* SpecOps: what that operator returned or raised

vars == <<line, day_first, parsed, reparsed, lines, pc, i, message_lines,
          chat, op, out>>

-----------------------------------------------------------------------------
(* Characters and strings                                                  *)

NL == "\n"
\* A lone surrogate code point (U+D800..U+DFFF): a legal element of a Python
\* str that the utf-8 codec refuses to encode.
SUR == "<surrogate>"

Digits == {"0", "1", "2", "3", "4", "5", "6", "7", "8", "9"}

\* str.isspace() for the characters str.rstrip() removes
Whitespace == {" ", "\n", "\t", "\r"}

DigitVal(c) ==
    CASE c = "0" -> 0 [] c = "1" -> 1 [] c = "2" -> 2 [] c = "3" -> 3
      [] c = "4" -> 4 [] c = "5" -> 5 [] c = "6" -> 6 [] c = "7" -> 7
      [] c = "8" -> 8 [] c = "9" -> 9

DigitChar(n) ==
    CASE n = 0 -> "0" [] n = 1 -> "1" [] n = 2 -> "2" [] n = 3 -> "3"
      [] n = 4 -> "4" [] n = 5 -> "5" [] n = 6 -> "6" [] n = 7 -> "7"
      [] n = 8 -> "8" [] n = 9 -> "9"

RECURSIVE Pow10(_)
Pow10(k) == IF k = 0 THEN 1 ELSE 10 * Pow10(k - 1)

\* int(s) for a string of decimal digits
RECURSIVE Num(_)
Num(s) == IF s = <<>> THEN 0
          ELSE 10 * Num(SubSeq(s, 1, Len(s) - 1)) + DigitVal(s[Len(s)])

\* "%0<w>d" % n
Pad(n, w) == [k \in 1..w |-> DigitChar((n \div Pow10(w - k)) % 10)]

\* s[from:] (1-based, inclusive)
From(s, from) == SubSeq(s, from, Len(s))

\* str.rstrip()
RECURSIVE rstrip(_)
rstrip(s) == IF s /= <<>> /\ s[Len(s)] \in Whitespace
             THEN rstrip(SubSeq(s, 1, Len(s) - 1))
             ELSE s

\* value in s, for strings
Contains(s, value) ==
    \E k \in 0..(Len(s) - Len(value)) : SubSeq(s, k + 1, k + Len(value)) = value

RECURSIVE Flatten(_)
Flatten(ss) == IF ss = <<>> THEN <<>> ELSE Head(ss) \o Flatten(Tail(ss))

-----------------------------------------------------------------------------
(* Regular expressions of parser.py                                        *)

\* A pattern element "D" is [0-9]; every other element is that literal.
PrefixMatch(pat, s) ==
    /\ Len(s) >= Len(pat)
    /\ \A k \in 1..Len(pat) :
          IF pat[k] = "D" THEN s[k] \in Digits ELSE s[k] = pat[k]

\* ^[0-9]{2}/[0-9]{2}/[0-9]{4}\, [0-9]{2}\:[0-9]{2}
StampRaw == <<"D","D","/","D","D","/","D","D","D","D",","," ","D","D",":","D","D">>
\* ^[0-9]{4}-[0-9]{2}-[0-9]{2} [0-9]{2}\:[0-9]{2}\:[0-9]{2}
StampMsg == <<"D","D","D","D","-","D","D","-","D","D"," ","D","D",":","D","D",":","D","D">>
\* ^[0-9]{2}/[0-9]{2}/[0-9]{4}
dt_reg_raw == <<"D","D","/","D","D","/","D","D","D","D">>
\* ^[0-9]{4}-[0-9]{2}-[0-9]{2}
dt_reg_msg == <<"D","D","D","D","-","D","D","-","D","D">>

\* ".*" over s[a..b]: no newline inside
NoNewline(s, a, b) == \A k \in a..b : s[k] /= NL

\* "(.*)$" from position p: the rest holds no newline but possibly a final one
TailOK(s, p) == NoNewline(s, p, Len(s) - 1)

\* what "(.*)$" captures from position p
TailText(s, p) ==
    IF Len(s) >= p /\ s[Len(s)] = NL THEN SubSeq(s, p, Len(s) - 1)
    ELSE SubSeq(s, p, Len(s))

\* (^<stamp>) - (.*?)\: (.*)$   -- the positions k of the "\: " that match
PrimaryCuts(stamp, s) ==
    LET n == Len(stamp) IN
    IF ~(PrefixMatch(stamp, s) /\ Len(s) >= n + 3
         /\ SubSeq(s, n + 1, n + 3) = <<" ", "-", " ">>)
    THEN {}
    ELSE {k \in (n + 4)..(Len(s) - 1) :
            /\ s[k] = ":" /\ s[k + 1] = " "
            /\ NoNewline(s, n + 4, k - 1)
            /\ TailOK(s, k + 2)}

\* A fallback pattern whose ".*" is not greedy: group 2 starts after the first
\* "- " instead of the last
FallbackCutsFirst(stamp, s) ==
    LET n == Len(stamp)
        all == {p \in (n + 1)..(Len(s) + 1) :
                  /\ p >= 3 /\ s[p - 2] = "-" /\ s[p - 1] = " "
                  /\ \A k \in (n + 1)..(p - 1) : s[k] /= NL
                  /\ \A k \in p..(Len(s) - 1) : s[k] /= NL}
    IN  IF ~PrefixMatch(stamp, s) THEN {}
        ELSE {p \in all : \A q \in all : p <= q}

\* (^<stamp>).*((?<=\- ).*$)    -- the positions p where group 2 may start
FallbackCuts(stamp, s) ==
    LET n == Len(stamp) IN
    IF ~PrefixMatch(stamp, s) THEN {}
    ELSE {p \in (n + 1)..(Len(s) + 1) :
            /\ p >= 3 /\ s[p - 2] = "-" /\ s[p - 1] = " "
            /\ NoNewline(s, n + 1, p - 1)
            /\ TailOK(s, p)}

Min(S) == CHOOSE x \in S : \A y \in S : x <= y
Max(S) == CHOOSE x \in S : \A y \in S : x >= y

\* F(e), with e evaluated once: a local variable of the code
With(e, F(_)) == CHOOSE r \in {F(x) : x \in {e}} : TRUE

-----------------------------------------------------------------------------
(* datetime and dateutil.parser.parse, as parse_line calls it              *)

IsLeap(y) == (y % 4 = 0 /\ y % 100 /= 0) \/ y % 400 = 0

DaysInMonth(y, m) ==
    IF m = 2 THEN (IF IsLeap(y) THEN 29 ELSE 28)
    ELSE IF m \in {4, 6, 9, 11} THEN 30 ELSE 31

\* datetime.datetime(...) accepts these fields (else ValueError)
ValidDateTime(t) ==
    /\ t.year \in 1..9999
    /\ t.month \in 1..12
    /\ t.day \in 1..DaysInMonth(t.year, t.month)
    /\ t.hour \in 0..23
    /\ t.minute \in 0..59
    /\ t.second \in 0..59

NoTime == [year |-> 0, month |-> 0, day |-> 0, hour |-> 0, minute |-> 0, second |-> 0]

\* dateutil's _ymd.resolve_ymd for three numeric members, none a month name:
\* ystridx is the position (0-based) of the member recognised as the year
\* because its token has more than two digits.
\*     if self[0] > 31 or self.ystridx == 0 or (yearfirst and ...):
\*         if dayfirst and self[2] <= 12:  year, day, month = self
\*         else:                           year, month, day = self
\*     elif self[0] > 12 or (dayfirst and self[1] <= 12):
\*                                         day, month, year = self
\*     else:                               month, day, year = self
resolve_ymd(ymd, ystridx, dayfirst) ==
    IF ymd[1] > 31 \/ ystridx = 0
    THEN IF dayfirst /\ ymd[3] <= 12
         THEN [year |-> ymd[1], day |-> ymd[2], month |-> ymd[3]]
         ELSE [year |-> ymd[1], month |-> ymd[2], day |-> ymd[3]]
    ELSE IF ymd[1] > 12 \/ (dayfirst /\ ymd[2] <= 12)
         THEN [day |-> ymd[1], month |-> ymd[2], year |-> ymd[3]]
         ELSE [month |-> ymd[1], day |-> ymd[2], year |-> ymd[3]]

\* parse_date(time, dayfirst=day_first) on the text group 1 of a pattern
\* captured: the fields dateutil reads off "DD/MM/YYYY, HH:MM" (no seconds:
\* 0) or "YYYY-MM-DD HH:MM:SS".  The result is valid or ValueError is raised.
parse_date(text, dayfirst) ==
    IF PrefixMatch(StampMsg, text)
    THEN LET r == resolve_ymd(<<Num(SubSeq(text, 1, 4)), Num(SubSeq(text, 6, 7)),
                                Num(SubSeq(text, 9, 10))>>, 0, dayfirst)
         IN  [year |-> r.year, month |-> r.month, day |-> r.day,
              hour |-> Num(SubSeq(text, 12, 13)),
              minute |-> Num(SubSeq(text, 15, 16)),
              second |-> Num(SubSeq(text, 18, 19))]
    ELSE LET r == resolve_ymd(<<Num(SubSeq(text, 1, 2)), Num(SubSeq(text, 4, 5)),
                                Num(SubSeq(text, 7, 10))>>, 2, dayfirst)
         IN  [year |-> r.year, month |-> r.month, day |-> r.day,
              hour |-> Num(SubSeq(text, 13, 14)),
              minute |-> Num(SubSeq(text, 16, 17)),
              second |-> 0]

\* str(datetime): "%04d-%02d-%02d %02d:%02d:%02d" (microsecond is 0)
StrTime(t) ==
    Pad(t.year, 4) \o <<"-">> \o Pad(t.month, 2) \o <<"-">> \o Pad(t.day, 2)
    \o <<" ">> \o Pad(t.hour, 2) \o <<":">> \o Pad(t.minute, 2)
    \o <<":">> \o Pad(t.second, 2)

-----------------------------------------------------------------------------
(* Message                                                                 *)

SYSTEM == <<"_", "S", "Y", "S", "T", "E", "M", "_">>

Raised(exc) == [kind |-> exc, time |-> NoTime, author |-> <<>>, content |-> <<>>]

\* Message.parse_line, up to the conversion of the time: the groups of the
\* first pattern that matches (p_reg_msg, p_reg_raw, then on AttributeError
\* sys_reg_msg, sys_reg_raw), or AttributeError from r.groups() on None.
Groups(s) ==
    LET primary(stamp, k) ==
            [kind |-> "groups", time |-> SubSeq(s, 1, Len(stamp)),
             author |-> SubSeq(s, Len(stamp) + 4, k - 1),
             content |-> TailText(s, k + 2)]
        fallback(stamp, p) ==
            [kind |-> "groups", time |-> SubSeq(s, 1, Len(stamp)),
             author |-> SYSTEM, content |-> TailText(s, p)]
    IN  With(PrimaryCuts(StampMsg, s), LAMBDA pm :
        IF pm /= {} THEN primary(StampMsg, Min(pm))
        ELSE With(PrimaryCuts(StampRaw, s), LAMBDA pr :
        IF pr /= {} THEN primary(StampRaw, Min(pr))
        ELSE With(FallbackCuts(StampMsg, s), LAMBDA sm :
        IF sm /= {} THEN fallback(StampMsg, Max(sm))
        ELSE With(FallbackCuts(StampRaw, s), LAMBDA sr :
        IF sr /= {} THEN fallback(StampRaw, Max(sr))
        ELSE [kind |-> "AttributeError", time |-> <<>>, author |-> <<>>,
              content |-> <<>>]))))

\* Message.parse_line(line, day_first)
parse_line(s, dayfirst) ==
    With(Groups(s), LAMBDA g :
    IF g.kind /= "groups" THEN Raised(g.kind)
    ELSE With(parse_date(g.time, dayfirst), LAMBDA t :
         IF ~ValidDateTime(t) THEN Raised("ValueError")
         ELSE [kind |-> "ok", time |-> t, author |-> g.author,
               content |-> rstrip(g.content)]))

\* bytes(line, encoding="utf-8") succeeds
Encodable(s) == \A k \in 1..Len(s) : s[k] /= SUR

\* Message.from_line(line, day_first): a Message, or the exception that leaves
from_line(line0, dayfirst) ==
    With(line0, LAMBDA s :
    With(parse_line(s, dayfirst), LAMBDA r :
    IF r.kind = "ok"
    THEN [kind |-> "Message", time |-> r.time, author |-> r.author,
          content |-> r.content]
    ELSE IF Encodable(s) THEN Raised("ParsingException")
    ELSE Raised("UnicodeEncodeError")))

\* Message.__str__: f'{self.time} - {self.author}: {self.content}'
Str(m) == StrTime(m.time) \o <<" ", "-", " ">> \o m.author \o <<":", " ">> \o m.content

-----------------------------------------------------------------------------
(* Chat                                                                    *)

\* A detection that wants the whole stringified timestamp, time included
is_new_message_stamp(l) == PrefixMatch(dt_reg_raw, l) \/ PrefixMatch(StampMsg, l)

\* Chat._is_new_message(line)
is_new_message(l) == PrefixMatch(dt_reg_raw, l) \/ PrefixMatch(dt_reg_msg, l)

\* A loop body that drops a continuation line met before any message
build_step_drop(ml, l) ==
    IF is_new_message(l)
    THEN [exc |-> "none", ml |-> Append(ml, rstrip(l))]
    ELSE IF ml = <<>>
         THEN [exc |-> "none", ml |-> ml]
         ELSE [exc |-> "none",
               ml |-> [ml EXCEPT ![Len(ml)] = @ \o <<" ">> \o rstrip(l)]]

\* A loop body that joins a continuation line without trimming it
build_step_untrimmed(ml, l) ==
    IF is_new_message(l)
    THEN [exc |-> "none", ml |-> Append(ml, rstrip(l))]
    ELSE IF ml = <<>>
         THEN [exc |-> "IndexError", ml |-> ml]
         ELSE [exc |-> "none",
               ml |-> [ml EXCEPT ![Len(ml)] = @ \o <<" ">> \o l]]

\* One iteration of the loop of Chat._build_messages on the local list ml:
\* message_lines[-1] on an empty list raises IndexError.
build_step(ml, l) ==
    IF is_new_message(l)
    THEN [exc |-> "none", ml |-> Append(ml, rstrip(l))]
    ELSE IF ml = <<>>
         THEN [exc |-> "IndexError", ml |-> ml]
         ELSE [exc |-> "none",
               ml |-> [ml EXCEPT ![Len(ml)] = @ \o <<" ">> \o rstrip(l)]]

\* Chat._build_messages(lines): the loop from line k on
RECURSIVE build_from(_, _, _)
build_from(ml, ls, k) ==
    IF k > Len(ls) THEN [exc |-> "none", ml |-> ml]
    ELSE With(build_step(ml, ls[k]), LAMBDA r :
         IF r.exc /= "none" THEN r ELSE build_from(r.ml, ls, k + 1))

build_messages(ls) == build_from(<<>>, ls, 1)

IsBlank(l) == l = <<NL>>

Authors(ms) == {ms[k].author : k \in 1..Len(ms)}

\* The messages setter: every line but '\n' through Message.from_line, in
\* order; the first exception leaves.  Then participants.
set_messages(mls, dayfirst) ==
    LET NotBlank(l) == ~IsBlank(l) IN
    With(SelectSeq(mls, NotBlank), LAMBDA kept :
    With([k \in 1..Len(kept) |-> from_line(kept[k], dayfirst)], LAMBDA rs :
    With({k \in 1..Len(kept) : rs[k].kind /= "Message"}, LAMBDA bad :
        IF bad /= {}
        THEN [exc |-> rs[Min(bad)].kind, messages |-> <<>>, participants |-> {}]
        ELSE [exc |-> "none", messages |-> rs, participants |-> Authors(rs)])))

\* Chat.create_df: one row per message (the tokens column is not modelled)
create_df(ms) ==
    [k \in 1..Len(ms) |->
        [time |-> ms[k].time, author |-> ms[k].author, content |-> ms[k].content]]

ChatRaised(exc) ==
    [kind |-> exc, day_first |-> TRUE, raw_lines |-> <<>>, messages |-> <<>>,
     participants |-> {}, df |-> <<>>]

NoChat == ChatRaised("none")

\* Chat(lines, day_first): the object, or the exception __init__ raises.  With
\* an empty (or no) list the messages are never set and create_df's read of
\* self.messages raises AttributeError.
NewChat(lines0, dayfirst) ==
    With(lines0, LAMBDA ls :
    IF ls = <<>> THEN ChatRaised("AttributeError")
    ELSE With(build_messages(ls), LAMBDA b :
         IF b.exc /= "none" THEN ChatRaised(b.exc)
         ELSE With(set_messages(b.ml, dayfirst), LAMBDA m :
              IF m.exc /= "none" THEN ChatRaised(m.exc)
              ELSE [kind |-> "Chat", day_first |-> dayfirst, raw_lines |-> ls,
                    messages |-> m.messages, participants |-> m.participants,
                    df |-> create_df(m.messages)])))

StrAll(ms) == [k \in 1..Len(ms) |-> Str(ms[k])]

\* Chat.__lshift__(value): Chat(lines) has day_first at its default, True
lshift(c, value) ==
    LET Keep(m) == Contains(m.content, value)
    IN  NewChat(StrAll(SelectSeq(c.messages, Keep)), TRUE)

\* Chat.__rshift__(value)
rshift(c, value) ==
    LET Keep(m) == ~Contains(m.content, value)
    IN  NewChat(StrAll(SelectSeq(c.messages, Keep)), TRUE)

\* value is [list |-> isinstance(value, list), items |-> the list, or <<the str>>]
InValue(author, value) ==
    IF value.list THEN \E k \in 1..Len(value.items) : value.items[k] = author
    ELSE author = value.items[1]

\* Chat.__and__(value)
and(c, value) ==
    LET Keep(m) == InValue(m.author, value)
    IN  NewChat(StrAll(SelectSeq(c.messages, Keep)), TRUE)

\* Chat.__or__(value)
or(c, value) ==
    LET Keep(m) == ~InValue(m.author, value)
    IN  NewChat(StrAll(SelectSeq(c.messages, Keep)), TRUE)

\* list[start:stop]: an absent bound is [some |-> FALSE], a negative one
\* counts from the end, and both are clamped to the list
SliceBound(b, default, n) ==
    IF ~b.some THEN default
    ELSE IF b.v < 0 THEN (IF b.v + n < 0 THEN 0 ELSE b.v + n)
    ELSE IF b.v > n THEN n ELSE b.v

Slice(s, start, stop) ==
    LET a == SliceBound(start, 0, Len(s))
        b == SliceBound(stop, Len(s), Len(s))
    IN  IF a >= b THEN <<>> ELSE SubSeq(s, a + 1, b)

\* Chat.__getitem__(slice(start, stop))
getitem_slice(c, start, stop) == NewChat(Slice(c.raw_lines, start, stop), TRUE)

\* Chat.__getitem__(key) for an int: self.messages[key]
getitem_index(c, key) ==
    LET n == Len(c.messages) IN
    IF key >= 0 /\ key < n THEN c.messages[key + 1]
    ELSE IF key < 0 /\ key + n >= 0 THEN c.messages[key + n + 1]
    ELSE Raised("IndexError")

-----------------------------------------------------------------------------
(* Inputs                                                                  *)

MaxLines == 3     \* longest list handed to Chat(...)
MaxTokens == 4    \* longest text after the timestamp, in tokens

\* '%d/%m/%Y, %H:%M' as the export (and tests/data_factory.make_date) writes it
RawStampOf(d, m, y, h, mi) ==
    Pad(d, 2) \o <<"/">> \o Pad(m, 2) \o <<"/">> \o Pad(y, 4) \o <<",", " ">>
    \o Pad(h, 2) \o <<":">> \o Pad(mi, 2)

Sep == <<" ", "-", " ">>
Colon == <<":", " ">>

R28 == RawStampOf(28, 8, 2020, 18, 33)
R05 == RawStampOf(5, 8, 2020, 18, 33)
M05 == StrTime([year |-> 2020, month |-> 8, day |-> 5,
                hour |-> 18, minute |-> 33, second |-> 0])

\* The raw lines a transcript is drawn from: messages of two authors in both
\* timestamp formats, with and without the final newline, a system message,
\* a message without content, a continuation line, a blank line and a line
\* that starts with a date but no time.
ChatLines ==
    { R28 \o Sep \o <<"a">> \o Colon \o <<"b">>,
      R05 \o Sep \o <<"b">> \o Colon \o <<"a", " ", "b", " ", NL>>,
      R28 \o Sep \o <<"a", ":">>,
      R05 \o Sep \o <<"b", NL>>,
      <<"b", NL>>,
      <<NL>>,
      <<"2", "0", "2", "0", "-", "0", "8", "-", "2", "8", " ", "b">>,
      M05 \o Sep \o <<"a">> \o Colon \o <<"b">> }

RECURSIVE SeqsUpTo(_, _)
SeqsUpTo(S, n) ==
    IF n = 0 THEN {<<>>}
    ELSE LET shorter == SeqsUpTo(S, n - 1)
         IN  shorter \cup {Append(q, x) : q \in shorter, x \in S}

\* The texts before the tail: the raw stamp with day and month from {5, 28}
\* and {8, 13}, the stringified stamp with day 5 and 28, a date without a
\* time, and nothing.
ParsePrefixes ==
    {RawStampOf(d, m, 2020, 18, 33) : d \in {5, 28}, m \in {8, 13}}
    \cup {StrTime([year |-> 2020, month |-> 8, day |-> d,
                   hour |-> 18, minute |-> 33, second |-> 0]) : d \in {5, 28}}
    \cup {SubSeq(R28, 1, 10), <<>>}

Tokens == {Sep, Colon, <<"a">>, <<" ">>, <<":">>, <<NL>>, <<SUR>>}

ParseLines ==
    {pre \o Flatten(ts) : pre \in ParsePrefixes, ts \in SeqsUpTo(Tokens, MaxTokens)}

\* arguments of << and >>
Texts == {<<"a">>, <<"b">>, <<"a", " ", "b">>, <<"c">>}

\* arguments of & and |: a str, or a list of str
AuthorValues ==
    {[list |-> FALSE, items |-> <<a>>] : a \in {<<"a">>, <<"b">>, SYSTEM}}
    \cup {[list |-> TRUE, items |-> q] : q \in {<<>>, <<<<"a">>, <<"b">>>>, <<SYSTEM>>}}

Bounds(n) ==
    {[some |-> FALSE, v |-> 0]} \cup {[some |-> TRUE, v |-> x] : x \in (0 - n)..n}

NoOp == [name |-> "none", text |-> <<>>, value |-> [list |-> FALSE, items |-> <<>>],
         start |-> [some |-> FALSE, v |-> 0], stop |-> [some |-> FALSE, v |-> 0],
         key |-> 0]

-----------------------------------------------------------------------------
(* Spec: Chat(lines, day_first), step by step                               *)

parseVars == <<line, parsed, reparsed>>
chatVars == <<lines, pc, i, message_lines, chat, op, out>>

Init ==
    /\ lines \in SeqsUpTo(ChatLines, MaxLines)
    /\ day_first \in BOOLEAN
    /\ pc = "init"
    /\ i = 1
    /\ message_lines = <<>>
    /\ chat = NoChat
    /\ op = NoOp
    /\ out = NoChat
    /\ line = <<>>
    /\ parsed = Raised("none")
    /\ reparsed = Raised("none")

\* Chat.__init__, lines 99-101: day_first, and _raw_lines when lines is not empty
ChatInit ==
    /\ pc = "init"
    /\ chat' = [NoChat EXCEPT !.kind = "init", !.day_first = day_first,
                              !.raw_lines = lines]
    /\ pc' = IF lines = <<>> THEN "create_df" ELSE "build"
    /\ UNCHANGED <<lines, day_first, i, message_lines, op, out, parseVars>>

\* Chat._build_messages: one iteration of "for line in lines"
BuildLine ==
    /\ pc = "build"
    /\ i <= Len(lines)
    /\ LET r == build_step(message_lines, lines[i]) IN
       IF r.exc /= "none"
       THEN /\ pc' = "raised"
            /\ chat' = ChatRaised(r.exc)
            /\ UNCHANGED <<i, message_lines>>
       ELSE /\ message_lines' = r.ml
            /\ i' = i + 1
            /\ UNCHANGED <<pc, chat>>
    /\ UNCHANGED <<lines, day_first, op, out, parseVars>>

\* The loop is over: self.messages = <the list>, the setter
SetMessages ==
    /\ pc = "build"
    /\ i > Len(lines)
    /\ LET m == set_messages(message_lines, chat.day_first) IN
       IF m.exc /= "none"
       THEN /\ pc' = "raised"
            /\ chat' = ChatRaised(m.exc)
       ELSE /\ pc' = "create_df"
            /\ chat' = [chat EXCEPT !.kind = "messages", !.messages = m.messages,
                                    !.participants = m.participants]
    /\ UNCHANGED <<lines, day_first, i, message_lines, op, out, parseVars>>

\* self.create_df(): reads self.messages, which only the setter assigns
CreateDf ==
    /\ pc = "create_df"
    /\ IF chat.kind = "messages"
       THEN /\ pc' = "done"
            /\ chat' = [chat EXCEPT !.kind = "Chat", !.df = create_df(chat.messages)]
       ELSE /\ pc' = "raised"
            /\ chat' = ChatRaised("AttributeError")
    /\ UNCHANGED <<lines, day_first, i, message_lines, op, out, parseVars>>

Next ==
    \/ ChatInit
    \/ BuildLine
    \/ SetMessages
    \/ CreateDf

Spec == Init /\ [][Next]_vars

-----------------------------------------------------------------------------
(* SpecOps: the operators and subscripts of a constructed Chat             *)

InitOps ==
    /\ lines \in SeqsUpTo(ChatLines, MaxLines)
    /\ day_first \in BOOLEAN
    /\ chat = NewChat(lines, day_first)
    /\ pc = IF chat.kind = "Chat" THEN "done" ELSE "raised"
    /\ i = Len(lines) + 1
    /\ message_lines = <<>>
    /\ op = NoOp
    /\ out = NoChat
    /\ line = <<>>
    /\ parsed = Raised("none")
    /\ reparsed = Raised("none")

\* The operators leave the chat as it is, so one application per run shows
\* all they can do.
Applied(o, result) ==
    /\ op.name = "none"
    /\ op' = o
    /\ out' = result
    /\ UNCHANGED <<lines, day_first, pc, i, message_lines, chat, parseVars>>

\* chat << value
LShift ==
    /\ pc = "done"
    /\ \E value \in Texts :
          Applied([NoOp EXCEPT !.name = "lshift", !.text = value], lshift(chat, value))

\* chat >> value
RShift ==
    /\ pc = "done"
    /\ \E value \in Texts :
          Applied([NoOp EXCEPT !.name = "rshift", !.text = value], rshift(chat, value))

\* chat & value
And ==
    /\ pc = "done"
    /\ \E value \in AuthorValues :
          Applied([NoOp EXCEPT !.name = "and", !.value = value], and(chat, value))

\* chat | value
Or ==
    /\ pc = "done"
    /\ \E value \in AuthorValues :
          Applied([NoOp EXCEPT !.name = "or", !.value = value], or(chat, value))

\* chat[start:stop]
GetSlice ==
    /\ pc = "done"
    /\ \E start \in Bounds(Len(chat.raw_lines)), stop \in Bounds(Len(chat.raw_lines)) :
          Applied([NoOp EXCEPT !.name = "slice", !.start = start, !.stop = stop],
                  getitem_slice(chat, start, stop))

\* chat[key]
GetIndex ==
    /\ pc = "done"
    /\ \E key \in (0 - Len(chat.messages) - 1)..Len(chat.messages) :
          Applied([NoOp EXCEPT !.name = "index", !.key = key],
                  getitem_index(chat, key))

NextOps ==
    \/ LShift
    \/ RShift
    \/ And
    \/ Or
    \/ GetSlice
    \/ GetIndex

SpecOps == InitOps /\ [][NextOps]_vars

-----------------------------------------------------------------------------
(* SpecParse: Message.from_line on one line, then on str() of its result   *)

InitParse ==
    /\ line \in ParseLines
    /\ day_first \in BOOLEAN
    /\ parsed = Raised("none")
    /\ reparsed = Raised("none")
    /\ lines = <<>>
    /\ pc = "parse"
    /\ i = 1
    /\ message_lines = <<>>
    /\ chat = NoChat
    /\ op = NoOp
    /\ out = NoChat

\* Message.from_line(line, day_first)
FromLine ==
    /\ parsed.kind = "none"
    /\ parsed' = from_line(line, day_first)
    /\ UNCHANGED <<line, day_first, reparsed, chatVars>>

\* Message.from_line(str(m), day_first) for the Message m just produced
Reparse ==
    /\ parsed.kind = "Message"
    /\ reparsed.kind = "none"
    /\ reparsed' = from_line(Str(parsed), day_first)
    /\ UNCHANGED <<line, day_first, parsed, chatVars>>

NextParse ==
    \/ FromLine
    \/ Reparse

SpecParse == InitParse /\ [][NextParse]_vars

\* The step-by-step construction ends where Chat(lines, day_first) does
StepwiseAgrees ==
    pc \in {"done", "raised"} => chat = NewChat(lines, day_first)

-----------------------------------------------------------------------------
(* Properties of Message.from_line (SpecParse)                             *)

\* The length of the timestamp the line begins with, 0 when it begins with none
StampLen(l) ==
    IF PrefixMatch(StampMsg, l) THEN Len(StampMsg)
    ELSE IF PrefixMatch(StampRaw, l) THEN Len(StampRaw)
    ELSE 0

\* The line holds ": " somewhere after its first n characters
HasDelimiter(l, n) == \E k \in (n + 1)..(Len(l) - 1) : l[k] = ":" /\ l[k + 1] = " "

\* The places right after a "- " that lies after the first n characters
DashEnds(l, n) == {p \in (n + 3)..(Len(l) + 1) : l[p - 2] = "-" /\ l[p - 1] = " "}

\* The only line break of the line, if any, is its last character
OneLine(l) == \A k \in 1..(Len(l) - 1) : l[k] /= NL

\* The timestamp the line begins with converts to a date-time
Convertible(l, dayfirst) ==
    ValidDateTime(parse_date(SubSeq(l, 1, StampLen(l)), dayfirst))

\* The line is matched by the primary pattern of one of the two formats
MatchesPrimary(l) ==
    /\ StampLen(l) > 0
    /\ OneLine(l)
    /\ Len(l) >= StampLen(l) + 3
    /\ SubSeq(l, StampLen(l) + 1, StampLen(l) + 3) = Sep
    /\ HasDelimiter(l, StampLen(l) + 3)

SameRecord(m1, m2) ==
    m1.time = m2.time /\ m1.author = m2.author /\ m1.content = m2.content

\* C1 (as claimed): with day_first true, parsing str(m) of a parsed Message m
\* again yields a Message with the same time, author and content.
C1_RoundTrip ==
    (parsed.kind = "Message" /\ day_first /\ reparsed.kind /= "none")
        => (reparsed.kind = "Message" /\ SameRecord(reparsed, parsed))

\* C3 (as claimed): from_line returns a complete Message or raises
\* ParsingException, and nothing else; it raises ParsingException whenever
\* no pattern matches or the timestamp does not convert.
C3_TwoOutcomes ==
    parsed.kind /= "none" =>
        /\ parsed.kind \in {"Message", "ParsingException"}
        /\ parsed.kind = "Message" => ValidDateTime(parsed.time)
        /\ (StampLen(line) = 0 \/ ~Convertible(line, day_first))
              => parsed.kind = "ParsingException"

\* The case of C4: a timestamp at the start and no ": " after it
C4_Case == StampLen(line) > 0 /\ ~HasDelimiter(line, StampLen(line))

\* C4 (as claimed): every line that begins with a timestamp and holds no ": "
\* after it parses, with author _SYSTEM_ and as content the text after the
\* last "- ", which is not empty.
C4_Original ==
    (parsed.kind /= "none" /\ C4_Case) =>
        /\ parsed.kind = "Message"
        /\ parsed.author = SYSTEM
        /\ DashEnds(line, StampLen(line)) /= {}
        /\ parsed.content = rstrip(From(line, Max(DashEnds(line, StampLen(line)))))
        /\ parsed.content /= <<>>

\* C4 (amended): a line without a line break before its end that begins with
\* a timestamp converting to a date-time, holds no ": " after it and holds a
\* "- " after it parses, with author _SYSTEM_ and as content the right-trimmed
\* text after the last "- " (empty when only whitespace follows it); the same
\* line without any "- " after the timestamp raises ParsingException.
C4_Amended ==
    (parsed.kind /= "none" /\ C4_Case /\ OneLine(line)
     /\ Convertible(line, day_first)) =>
        IF DashEnds(line, StampLen(line)) = {}
        THEN parsed.kind \in {"ParsingException", "UnicodeEncodeError"}
        ELSE /\ parsed.kind = "Message"
             /\ parsed.author = SYSTEM
             /\ parsed.content =
                   rstrip(From(line, Max(DashEnds(line, StampLen(line)))))

\* C4 happens: a system line with two "- " has been parsed, the content
\* being what follows the second
C4_Witness ==
    /\ C4_Case /\ OneLine(line) /\ Convertible(line, day_first)
    /\ Cardinality(DashEnds(line, StampLen(line))) >= 2
    /\ parsed.kind = "Message"
    /\ parsed.author = SYSTEM
    /\ parsed.content /= <<>>

\* C5 (as claimed): every line matched by the primary pattern, with a
\* convertible timestamp, parses into a date-time, a non-empty author and a
\* non-empty content.
C5_NonEmpty ==
    (parsed.kind /= "none" /\ MatchesPrimary(line) /\ Convertible(line, day_first))
        => /\ parsed.kind = "Message"
           /\ ValidDateTime(parsed.time)
           /\ parsed.author /= <<>>
           /\ parsed.content /= <<>>

-----------------------------------------------------------------------------
(* Properties of the construction of a Chat (Spec)                         *)

\* The places of the new-message lines of ls
Starts(ls) == {k \in 1..Len(ls) : is_new_message(ls[k])}

\* The j-th new-message line of ls, and the last line that belongs to the
\* message starting at a
NthStart(ls, j) ==
    CHOOSE a \in Starts(ls) : Cardinality({x \in Starts(ls) : x <= a}) = j
LastOf(ls, a) ==
    CHOOSE b \in a..Len(ls) :
        /\ \A k \in (a + 1)..b : k \notin Starts(ls)
        /\ b = Len(ls) \/ (b + 1) \in Starts(ls)

\* The lines a..b of ls, each right-trimmed, joined by single spaces
RECURSIVE JoinLines(_, _, _)
JoinLines(ls, a, b) ==
    IF a = b THEN rstrip(ls[a])
    ELSE JoinLines(ls, a, b - 1) \o <<" ">> \o rstrip(ls[b])

\* One logical line per new-message line: the line and its continuation lines
Reassembled(ls) ==
    [j \in 1..Cardinality(Starts(ls)) |->
        JoinLines(ls, NthStart(ls, j), LastOf(ls, NthStart(ls, j)))]

\* C2: when the first raw line is a new-message line the loop of
\* _build_messages never fails, it ends with one logical line per new-message
\* line, in order, each the right-trimmed line followed by its right-trimmed
\* continuation lines joined by single spaces, and the Chat built from them
\* has as many messages as the input has new-message lines.
C2_Reassembly ==
    (lines /= <<>> /\ is_new_message(lines[1])) =>
        /\ chat.kind /= "IndexError"
        /\ i > Len(lines) => message_lines = Reassembled(lines)
        /\ pc = "done" => Len(chat.messages) = Cardinality(Starts(lines))

\* C2 happens: a Chat of two messages has been built from three raw lines,
\* one of them a continuation line
C2_Witness ==
    /\ pc = "done"
    /\ Len(lines) = 3
    /\ is_new_message(lines[1])
    /\ Cardinality(Starts(lines)) = 2
    /\ \E k \in 2..3 : ~is_new_message(lines[k]) /\ lines[k] /= <<NL>>
    /\ Len(chat.messages) = 2

\* The first line of ls that is not a lone newline is not a new-message line
ContinuationFirst(ls) ==
    \E k \in 1..Len(ls) :
        /\ ls[k] /= <<NL>>
        /\ ~is_new_message(ls[k])
        /\ \A j \in 1..(k - 1) : ls[j] = <<NL>>

\* C8: when the first non-blank raw line is not a new-message line, the
\* construction raises at the first line: no logical line is ever started,
\* no message is set and no Chat comes out.
C8_StructuralError ==
    ContinuationFirst(lines) =>
        /\ pc \in {"init", "build", "raised"}
        /\ pc = "build" => i = 1
        /\ pc = "raised" => chat.kind = "IndexError"
        /\ message_lines = <<>>
        /\ chat.messages = <<>>

\* C8 happens: the construction has raised on a list whose continuation line
\* is followed by a message
C8_Witness ==
    /\ ContinuationFirst(lines)
    /\ \E k \in 2..Len(lines) : is_new_message(lines[k])
    /\ pc = "raised"
    /\ chat.kind = "IndexError"

\* ls without its lines that are a lone newline
NoBlank(ls) == SelectSeq(ls, LAMBDA l : l /= <<NL>>)

\* C9 (as claimed): removing the lines that are a lone newline changes
\* neither the logical lines nor the messages: the construction ends as the
\* construction from the list without them does.
C9_BlankSkipped ==
    (pc \in {"done", "raised"} /\ NoBlank(lines) /= <<>>) =>
        /\ chat.kind = NewChat(NoBlank(lines), day_first).kind
        /\ chat.messages = NewChat(NoBlank(lines), day_first).messages
        /\ pc = "done" => message_lines = build_messages(NoBlank(lines)).ml

\* ^\d{2}/\d{2}/\d{4}, ^\d{4}-\d{2}-\d{2} and ^\d{4}-\d{2}-\d{2} \d{2}:\d{2}:\d{2}
RawDate == <<"D","D","/","D","D","/","D","D","D","D">>
MsgDate == <<"D","D","D","D","-","D","D","-","D","D">>
MsgDateTime == MsgDate \o <<" ","D","D",":","D","D",":","D","D">>

\* What one pass of the loop does with lines[i] when "starts" tells whether
\* the line starts a message
Detects(starts) ==
    IF starts
    THEN message_lines' = Append(message_lines, rstrip(lines[i]))
    ELSE IF message_lines /= <<>>
         THEN message_lines' =
                 [message_lines EXCEPT ![Len(message_lines)] =
                      @ \o <<" ">> \o rstrip(lines[i])]
         ELSE pc' = "raised" /\ message_lines' = message_lines

\* C10 (as claimed): a raw line starts a new logical line if and only if it
\* begins with YYYY-MM-DD HH:MM:SS or with DD/MM/YYYY; every other line
\* extends the most recent logical line.
C10_Original ==
    [][(pc = "build" /\ i <= Len(lines)) =>
          Detects(PrefixMatch(MsgDateTime, lines[i]) \/ PrefixMatch(RawDate, lines[i]))]_vars

\* C10 (amended): a raw line starts a new logical line if and only if it
\* begins with the date YYYY-MM-DD (no time needed) or with DD/MM/YYYY; every
\* other line extends the most recent logical line, and the build fails when
\* there is none.
C10_Amended ==
    [][(pc = "build" /\ i <= Len(lines)) =>
          Detects(PrefixMatch(MsgDate, lines[i]) \/ PrefixMatch(RawDate, lines[i]))]_vars

\* C10 happens: a line that begins with a date but no time has started a
\* logical line
C10_Witness ==
    /\ pc = "build"
    /\ i > 1
    /\ PrefixMatch(MsgDate, lines[i - 1])
    /\ ~PrefixMatch(MsgDateTime, lines[i - 1])
    /\ message_lines /= <<>>
    /\ message_lines[Len(message_lines)] = rstrip(lines[i - 1])

-----------------------------------------------------------------------------
(* Properties of the operators of a Chat (SpecOps)                         *)

\* C6 (as claimed): chat[i:j] is a Chat over the raw lines i..j whose
\* participants are the authors of its messages, and chat[k] is the k-th
\* Message of the chat.
C6_Slicing ==
    /\ op.name = "slice" =>
          /\ out.kind = "Chat"
          /\ out.raw_lines = Slice(chat.raw_lines, op.start, op.stop)
          /\ out.participants = {out.messages[k].author : k \in 1..Len(out.messages)}
    /\ (op.name = "index" /\ op.key >= 0 /\ op.key < Len(chat.messages)) =>
          out = chat.messages[op.key + 1]

\* The records of the chat that the operator applied is claimed to keep
Selected ==
    LET has(m) == \E a \in 1..(Len(m.content) + 1) : \E b \in (a - 1)..Len(m.content) :
                      SubSeq(m.content, a, b) = op.text
        by(m) == IF op.value.list
                 THEN \E k \in 1..Len(op.value.items) : op.value.items[k] = m.author
                 ELSE op.value.items = <<m.author>>
        keep(m) == CASE op.name = "lshift" -> has(m)
                     [] op.name = "rshift" -> ~has(m)
                     [] op.name = "and" -> by(m)
                     [] op.name = "or" -> ~by(m)
    IN  SelectSeq(chat.messages, keep)

\* C7 (as claimed): c << v, c >> v, c & a and c | a are Chats that hold
\* exactly the records of c with, respectively without, v in the content or
\* the author in a, in their order and with time, author and content as in c.
C7_Filter ==
    op.name \in {"lshift", "rshift", "and", "or"} =>
        /\ out.kind = "Chat"
        /\ out.messages = Selected

====
